---- MODULE Spec2Model ----
(***************************************************************************)
(* Model of the shape fixtures of ts-nes:                                   *)
(*   src/ts/sample-files/enhanced-shapes.py   ("enhanced")                  *)
(*   src/ts/sample-files/shapes.py            ("sample")                    *)
(*   src/ts/output/enhanced-shapes-improved.py ("improved", truncated)      *)
(*                                                                         *)
(* Python numbers are modelled by value as IEEE-754 binary64 (the type of   *)
(* Python's float): a sign, a 53-bit significand and a binary exponent,     *)
(* every operation rounding to nearest, ties to even.  The ints the code    *)
(* handles here are far below 2^53, so an int and the float of the same     *)
(* value are the same number (Python compares them equal).  Significands    *)
(* exceed the 32-bit integers of TLC, so they are kept as little-endian     *)
(* sequences of 15-bit limbs.  All dimensions of the model are of ordinary  *)
(* magnitude: the exponent range of binary64 is never reached.              *)
(***************************************************************************)
EXTENDS Integers, Sequences, FiniteSets, TLC

(***************************************************************************)
(* Natural numbers as little-endian limb sequences (radix 2^15).            *)
(***************************************************************************)
LimbBits == 15
Base == 2^15

Limb(x, i) == IF i <= Len(x) THEN x[i] ELSE 0

RECURSIVE BTrim(_)
BTrim(x) ==
  IF x = <<>> THEN x
  ELSE IF x[Len(x)] = 0 THEN BTrim(SubSeq(x, 1, Len(x) - 1)) ELSE x

RECURSIVE BAddC(_, _, _, _)
BAddC(x, y, i, c) ==
  IF i > Len(x) /\ i > Len(y)
  THEN (IF c = 0 THEN <<>> ELSE <<c>>)
  ELSE LET t == Limb(x, i) + Limb(y, i) + c
       IN  <<t % Base>> \o BAddC(x, y, i + 1, t \div Base)

BAdd(x, y) == BAddC(x, y, 1, 0)

RECURSIVE BSubC(_, _, _, _)
BSubC(x, y, i, b) ==
  IF i > Len(x) THEN <<>>
  ELSE LET t == Limb(x, i) - Limb(y, i) - b
       IN  <<IF t < 0 THEN t + Base ELSE t>>
             \o BSubC(x, y, i + 1, IF t < 0 THEN 1 ELSE 0)

\* x - y for x >= y
BSub(x, y) == BTrim(BSubC(x, y, 1, 0))

RECURSIVE BCmpFrom(_, _, _)
BCmpFrom(x, y, i) ==
  IF i = 0 THEN 0
  ELSE IF x[i] > y[i] THEN 1
  ELSE IF x[i] < y[i] THEN -1
  ELSE BCmpFrom(x, y, i - 1)

\* -1, 0, 1 as x <, =, > y (both trimmed)
BCmp(x, y) ==
  IF Len(x) > Len(y) THEN 1
  ELSE IF Len(x) < Len(y) THEN -1
  ELSE BCmpFrom(x, y, Len(x))

RECURSIVE BMulSmallC(_, _, _, _)
BMulSmallC(x, k, i, c) ==
  IF i > Len(x) THEN (IF c = 0 THEN <<>> ELSE <<c>>)
  ELSE LET t == x[i] * k + c
       IN  <<t % Base>> \o BMulSmallC(x, k, i + 1, t \div Base)

\* x * k for 0 <= k < Base
BMulSmall(x, k) == BTrim(BMulSmallC(x, k, 1, 0))

Zeros(n) == [i \in 1..n |-> 0]

RECURSIVE BMulFrom(_, _, _)
BMulFrom(x, y, i) ==
  IF i > Len(y) THEN <<>>
  ELSE IF y[i] = 0 THEN BMulFrom(x, y, i + 1)
  ELSE BAdd(Zeros(i - 1) \o BMulSmall(x, y[i]), BMulFrom(x, y, i + 1))

BMul(x, y) == BTrim(BMulFrom(x, y, 1))

RECURSIVE BDivSmallFrom(_, _, _, _)
BDivSmallFrom(x, k, i, r) ==
  IF i > Len(x) THEN [q |-> <<>>, r |-> r]
  ELSE LET j == Len(x) + 1 - i
           t == r * Base + x[j]
           rest == BDivSmallFrom(x, k, i + 1, t % k)
       IN  [q |-> rest.q \o <<t \div k>>, r |-> rest.r]

\* quotient and remainder of x by k, 0 < k <= Base
BDivSmall(x, k) ==
  LET d == BDivSmallFrom(x, k, 1, 0) IN [q |-> BTrim(d.q), r |-> d.r]

\* x * 2^n
BShl(x, n) ==
  IF x = <<>> THEN x
  ELSE Zeros(n \div LimbBits) \o BMulSmall(x, 2^(n % LimbBits))

\* floor(x / 2^n)
BShr(x, n) ==
  LET d == n \div LimbBits
  IN  IF d >= Len(x) THEN <<>>
      ELSE BDivSmall(SubSeq(x, d + 1, Len(x)), 2^(n % LimbBits)).q

\* number of bits of a trimmed x > 0
BBitLen(x) ==
  LET top == x[Len(x)]
  IN  LimbBits * (Len(x) - 1)
        + (CHOOSE n \in 1..LimbBits : 2^(n - 1) <= top /\ top < 2^n)

(***************************************************************************)
(* binary64: [s |-> -1 | 0 | 1, m |-> 53-bit significand, e |-> exponent],  *)
(* the value being s * m * 2^e; zero is [s |-> 0, m |-> <<>>, e |-> 0].     *)
(***************************************************************************)
MANT_DIG == 53

FZero == [s |-> 0, m |-> <<>>, e |-> 0]

\* s * M * 2^e (M > 0 trimmed; sticky: the exact value lies a little above)
\* rounded to nearest, ties to even
FRound(s, M, e, sticky) ==
  LET L == BBitLen(M)
  IN  IF L <= MANT_DIG
      THEN [s |-> s, m |-> BShl(M, MANT_DIG - L), e |-> e - (MANT_DIG - L)]
      ELSE LET sh == L - MANT_DIG
               q == BShr(M, sh)
               rem == BSub(M, BShl(q, sh))
               half == BShl(<<1>>, sh - 1)
               c == BCmp(rem, half)
               up == c > 0 \/ (c = 0 /\ (sticky \/ q[1] % 2 = 1))
               q2 == IF up THEN BAdd(q, <<1>>) ELSE q
           IN  IF BBitLen(q2) > MANT_DIG
               THEN [s |-> s, m |-> BShr(q2, 1), e |-> e + sh + 1]
               ELSE [s |-> s, m |-> q2, e |-> e + sh]

\* the float of a Python int n, |n| < 2^15
FromInt(n) ==
  IF n = 0 THEN FZero
  ELSE FRound(IF n < 0 THEN -1 ELSE 1, <<IF n < 0 THEN -n ELSE n>>, 0, FALSE)

\* x * y
fmul(x, y) ==
  IF x.s = 0 \/ y.s = 0 THEN FZero
  ELSE FRound(x.s * y.s, BMul(x.m, y.m), x.e + y.e, FALSE)

\* x + y
fadd(x, y) ==
  IF x.s = 0 THEN y
  ELSE IF y.s = 0 THEN x
  ELSE LET e == IF x.e < y.e THEN x.e ELSE y.e
           X == BShl(x.m, x.e - e)
           Y == BShl(y.m, y.e - e)
           c == BCmp(X, Y)
       IN  IF x.s = y.s THEN FRound(x.s, BAdd(X, Y), e, FALSE)
           ELSE IF c = 0 THEN FZero
           ELSE IF c > 0 THEN FRound(x.s, BSub(X, Y), e, FALSE)
           ELSE FRound(y.s, BSub(Y, X), e, FALSE)

\* -1, 0, 1 as x <, =, > y
fcmp(x, y) ==
  IF x.s # y.s THEN (IF x.s < y.s THEN -1 ELSE 1)
  ELSE IF x.s = 0 THEN 0
  ELSE LET c == IF x.e > y.e THEN 1
                ELSE IF x.e < y.e THEN -1
                ELSE BCmp(x.m, y.m)
       IN  x.s * c

flt(x, y) == fcmp(x, y) < 0
fle(x, y) == fcmp(x, y) <= 0
fgt(x, y) == fcmp(x, y) > 0

\* x / n for a Python int n, 0 < |n| < 2^15 (the int converts exactly)
fdiv_int(x, n) ==
  IF x.s = 0 THEN FZero
  ELSE LET d == BDivSmall(BShl(x.m, 2 * LimbBits), IF n < 0 THEN -n ELSE n)
       IN  FRound(IF n < 0 THEN -x.s ELSE x.s, d.q, x.e - 2 * LimbBits, d.r # 0)

\* math.pi = 0x1.921fb54442d18p+1
pi == [s |-> 1, m |-> <<11544, 10376, 2029, 201>>, e |-> -51]

\* the literal 0.1 = 0x1.999999999999ap-4
F0_1 == [s |-> 1, m |-> <<6554, 13107, 26214, 204>>, e |-> -56]

(***************************************************************************)
(* Outcome of a call: the value returned, or the exception raised.          *)
(***************************************************************************)
Return(v) == [raised |-> "None", val |-> v]
Raise(exc) == [raised |-> exc]
None == [name |-> "None"]

\* x / n, n a Python int: ZeroDivisionError when n = 0
truediv(x, n) == IF n = 0 THEN Raise("ZeroDivisionError") ELSE Return(fdiv_int(x, n))

\* x ** 2 (the model's radii are integer-valued: the square is exact)
pow2(x) == fmul(x, x)

(***************************************************************************)
(* The Shape classes.  An object is the record of its fields.               *)
(***************************************************************************)
\* enhanced-shapes.py: Circle(radius, color="white")
enhanced_Circle(radius, color) ==
  IF fle(radius, FZero) THEN Raise("ValueError")
  ELSE Return([name |-> "Circle", color |-> color, radius |-> radius])

\* enhanced-shapes.py: Rectangle(width, height, color="white")
enhanced_Rectangle(width, height, color) ==
  IF fle(width, FZero) \/ fle(height, FZero) THEN Raise("ValueError")
  ELSE Return([name |-> "Rectangle", color |-> color,
               width |-> width, height |-> height])

\* shapes.py: Circle(radius)
sample_Circle(radius) == Return([name |-> "Circle", radius |-> radius])

\* shapes.py: Rectangle(width, height)
sample_Rectangle(width, height) ==
  Return([name |-> "Rectangle", width |-> width, height |-> height])

\* enhanced-shapes-improved.py: Circle(radius, color="white"); past the check
\* the truncated body reads self.shapes, which no Circle has
improved_Circle(radius, color) ==
  IF fle(radius, FZero) THEN Raise("ValueError") ELSE Raise("AttributeError")

area(shape) ==
  IF shape.name = "Circle" THEN fmul(pi, pow2(shape.radius))
  ELSE fmul(shape.width, shape.height)

perimeter(shape) ==
  IF shape.name = "Circle" THEN fmul(fmul(FromInt(2), pi), shape.radius)
  ELSE fmul(FromInt(2), fadd(shape.width, shape.height))

(***************************************************************************)
(* Builtins over lists.                                                     *)
(***************************************************************************)
\* (mutant) an append that keeps one entry per shape
list_append_unique(list, x) ==
  IF \E i \in 1..Len(list) : list[i] = x THEN list ELSE Append(list, x)

\* list.append
list_append(list, x) == Append(list, x)

RECURSIVE sum_from(_, _, _)
sum_from(xs, i, acc) ==
  IF i > Len(xs) THEN acc ELSE sum_from(xs, i + 1, fadd(acc, xs[i]))

\* sum(xs): starts at 0 and adds left to right
sum(xs) == sum_from(xs, 1, FZero)

RECURSIVE max_from(_, _, _)
max_from(keys, i, best) ==
  IF i > Len(keys) THEN best
  ELSE max_from(keys, i + 1, IF fgt(keys[i], keys[best]) THEN i ELSE best)

\* (mutant) the last of the largest
argmax_last(keys) ==
  CHOOSE i \in 1..Len(keys) :
    /\ \A j \in 1..Len(keys) : fle(keys[j], keys[i])
    /\ \A j \in (i + 1)..Len(keys) : flt(keys[j], keys[i])

\* index of the item max() returns over items with these keys: the first
\* of the largest
argmax(keys) == max_from(keys, 2, 1)

RECURSIVE min_from(_, _, _)
min_from(keys, i, best) ==
  IF i > Len(keys) THEN best
  ELSE min_from(keys, i + 1, IF flt(keys[i], keys[best]) THEN i ELSE best)

\* (mutant) the comparison of max() left in place
argmin_gt(keys) == max_from(keys, 2, 1)

argmin(keys) == min_from(keys, 2, 1)

\* max(xs), min(xs): ValueError on an empty list
max(xs) == IF xs = <<>> THEN Raise("ValueError") ELSE Return(xs[argmax(xs)])
min(xs) == IF xs = <<>> THEN Raise("ValueError") ELSE Return(xs[argmin(xs)])

RECURSIVE areas_from(_, _)
areas_from(shapes, i) ==
  IF i > Len(shapes) THEN <<>>
  ELSE <<area(shapes[i])>> \o areas_from(shapes, i + 1)

\* [shape.area() for shape in shapes]
areas_of(shapes) == areas_from(shapes, 1)

RECURSIVE perimeters_from(_, _)
perimeters_from(shapes, i) ==
  IF i > Len(shapes) THEN <<>>
  ELSE <<perimeter(shapes[i])>> \o perimeters_from(shapes, i + 1)

\* [shape.perimeter() for shape in shapes]
perimeters_of(shapes) == perimeters_from(shapes, 1)

(***************************************************************************)
(* ShapeCalculator                                                          *)
(***************************************************************************)
add_shape(shapes, shape) == list_append(shapes, shape)

\* (mutant) the perimeters summed instead
total_area_perimeters(shapes) == Return(sum(perimeters_of(shapes)))

total_area(shapes) == Return(sum(areas_of(shapes)))

total_perimeter(shapes) ==
  Return(sum(perimeters_of(shapes)))

get_largest_shape(shapes) ==
  IF shapes = <<>> THEN Return(None)
  ELSE Return(shapes[argmax(areas_of(shapes))])

RECURSIVE filter_from(_, _, _)
filter_from(shapes, color, i) ==
  IF i > Len(shapes) THEN <<>>
  ELSE (IF shapes[i].color = color THEN <<shapes[i]>> ELSE <<>>)
         \o filter_from(shapes, color, i + 1)

\* (mutant) stops at the first match
filter_by_color_first(shapes, color) ==
  LET all == filter_from(shapes, color, 1)
  IN  Return(IF all = <<>> THEN all ELSE <<all[1]>>)

filter_by_color(shapes, color) == Return(filter_from(shapes, color, 1))

\* the body of get_statistics past its emptiness check
statistics_of(shapes) ==
  LET areas == areas_of(shapes)
      perimeters == perimeters_of(shapes)
      average_area == truediv(sum(areas), Len(areas))
      average_perimeter == truediv(sum(perimeters), Len(perimeters))
      max_area == max(areas)
      min_area == min(areas)
  IN  IF average_area.raised # "None" THEN Raise(average_area.raised)
      ELSE IF average_perimeter.raised # "None"
      THEN Raise(average_perimeter.raised)
      ELSE IF max_area.raised # "None" THEN Raise(max_area.raised)
      ELSE IF min_area.raised # "None" THEN Raise(min_area.raised)
      ELSE Return([count |-> Len(shapes),
                   total_area |-> sum(areas),
                   total_perimeter |-> sum(perimeters),
                   average_area |-> average_area.val,
                   average_perimeter |-> average_perimeter.val,
                   max_area |-> max_area.val,
                   min_area |-> min_area.val])

\* (mutant) the emptiness check left out
get_statistics_unchecked(shapes) == statistics_of(shapes)

get_statistics(shapes) ==
  IF shapes = <<>>
  THEN Return([count |-> 0, total_area |-> FZero, total_perimeter |-> FZero])
  ELSE statistics_of(shapes)

(***************************************************************************)
(* The state machine: one of the three files is loaded; a caller builds     *)
(* shapes, adds them to a ShapeCalculator and queries it.                   *)
(***************************************************************************)
VARIABLES
  file,    \* the file whose definitions are in force
  shapes,  \* ShapeCalculator.shapes
  ret,     \* the last call: [op, args, out], out the outcome of the call
  calls,   \* history: the arguments of the add_shape calls so far, in order
  pc,      \* MathUtils.gcd: "idle", "loop" (at the while test), "returned"
  gargs,   \* MathUtils.gcd: the arguments of the call
  a,       \* MathUtils.gcd: local a
  b,       \* MathUtils.gcd: local b
  gret     \* MathUtils.gcd: the value returned

cvars == <<file, shapes, ret, calls>>
gvars == <<pc, gargs, a, b, gret>>
vars == <<file, shapes, ret, calls, pc, gargs, a, b, gret>>

MaxShapes == 3

Files == {"enhanced", "sample", "improved"}

\* the constructor calls the caller makes (color "white" where the call
\* leaves the default; shapes.py has no color parameter)
CircleCalls ==
  {<<FromInt(0), "white">>, <<FromInt(-1), "white">>, <<FromInt(1), "red">>}
RectangleCalls ==
  {<<FromInt(0), FromInt(5), "white">>, <<FromInt(5), FromInt(-2), "white">>,
   <<FromInt(2), FromInt(2), "blue">>, <<FromInt(1), FromInt(4), "red">>,
   <<FromInt(4), FromInt(4), "white">>, <<F0_1, FromInt(1), "white">>}
Colors == {"red", "white", "green"}

NoCall == [op |-> "none"]

Circle(f, radius, color) ==
  IF f = "enhanced" THEN enhanced_Circle(radius, color)
  ELSE IF f = "sample" THEN sample_Circle(radius)
  ELSE improved_Circle(radius, color)

Rectangle(f, width, height, color) ==
  IF f = "enhanced" THEN enhanced_Rectangle(width, height, color)
  ELSE sample_Rectangle(width, height)

\* the objects those calls return
Constructed(f) ==
  {Circle(f, c[1], c[2]).val :
     c \in {d \in CircleCalls : Circle(f, d[1], d[2]).raised = "None"}}
  \cup
  {Rectangle(f, c[1], c[2], c[3]).val :
     c \in {d \in RectangleCalls :
              Rectangle(f, d[1], d[2], d[3]).raised = "None"}}

ConstructedEnhanced == Constructed("enhanced")
ConstructedSample == Constructed("sample")

\* the shapes the caller adds: one circle and three rectangles per file
Pool(f) ==
  IF f = "enhanced"
  THEN {s \in ConstructedEnhanced : s.name = "Circle" \/ s.width # F0_1}
  ELSE {s \in ConstructedSample :
          \/ s.name = "Circle" /\ s.radius = FromInt(-1)
          \/ s.name = "Rectangle" /\ s.width \in {FromInt(2), FromInt(4), F0_1}}

Init ==
  /\ file \in Files
  /\ shapes = <<>>
  /\ ret = NoCall
  /\ calls = <<>>
  /\ pc = "idle"
  /\ gargs = <<0, 0>>
  /\ a = 0
  /\ b = 0
  /\ gret = 0

\* the arguments as the file's signature takes them
Args(f, c) == IF f = "sample" THEN SubSeq(c, 1, Len(c) - 1) ELSE c

NewCircle ==
  \E c \in CircleCalls :
    /\ ret' = [op |-> "Circle", args |-> Args(file, c),
               out |-> Circle(file, c[1], c[2])]
    /\ UNCHANGED <<file, shapes, calls, gvars>>

NewRectangle ==
  /\ file # "improved"
  /\ \E c \in RectangleCalls :
       /\ ret' = [op |-> "Rectangle", args |-> Args(file, c),
                  out |-> Rectangle(file, c[1], c[2], c[3])]
       /\ UNCHANGED <<file, shapes, calls, gvars>>

AddShape ==
  /\ file # "improved"
  /\ Len(shapes) < MaxShapes
  /\ \E shape \in Pool(file) :
       /\ shapes' = add_shape(shapes, shape)
       /\ calls' = calls \o <<shape>>
       /\ ret' = [op |-> "add_shape", args |-> <<shape>>, out |-> Return(None)]
       /\ UNCHANGED <<file, gvars>>

TotalArea ==
  /\ file # "improved"
  /\ ret' = [op |-> "total_area", args |-> <<>>, out |-> total_area(shapes)]
  /\ UNCHANGED <<file, shapes, calls, gvars>>

TotalPerimeter ==
  /\ file # "improved"
  /\ ret' = [op |-> "total_perimeter", args |-> <<>>,
             out |-> total_perimeter(shapes)]
  /\ UNCHANGED <<file, shapes, calls, gvars>>

GetLargestShape ==
  /\ file = "enhanced"
  /\ ret' = [op |-> "get_largest_shape", args |-> <<>>,
             out |-> get_largest_shape(shapes)]
  /\ UNCHANGED <<file, shapes, calls, gvars>>

FilterByColor ==
  /\ file = "enhanced"
  /\ \E color \in Colors :
       /\ ret' = [op |-> "filter_by_color", args |-> <<color>>,
                  out |-> filter_by_color(shapes, color)]
       /\ UNCHANGED <<file, shapes, calls, gvars>>

GetStatistics ==
  /\ file = "sample"
  /\ ret' = [op |-> "get_statistics", args |-> <<>>,
             out |-> get_statistics(shapes)]
  /\ UNCHANGED <<file, shapes, calls, gvars>>

Next ==
  \/ NewCircle
  \/ NewRectangle
  \/ AddShape
  \/ TotalArea
  \/ TotalPerimeter
  \/ GetLargestShape
  \/ FilterByColor
  \/ GetStatistics

Spec == Init /\ [][Next]_vars

(***************************************************************************)
(* MathUtils.gcd (shapes.py), one step per evaluation of the while test.    *)
(***************************************************************************)
MaxInt == 6

abs(x) == IF x < 0 THEN -x ELSE x

\* Python's x % y on ints, y # 0: the remainder takes the sign of y
mod(x, y) == IF y > 0 THEN x % y ELSE -((-x) % (-y))

\* the tuple assigned by  a, b = b, a % b
gcd_body(x, y) == <<y, mod(x, y)>>

\* (mutant) the sign of a kept
gcd_return_signed(x) == x

\* return abs(a)
gcd_return(x) == abs(x)

GcdCall ==
  /\ pc # "loop"
  /\ \E x \in -MaxInt..MaxInt, y \in -MaxInt..MaxInt :
       /\ gargs' = <<x, y>>
       /\ a' = x
       /\ b' = y
  /\ pc' = "loop"
  /\ UNCHANGED <<gret, cvars>>

GcdLoop ==
  /\ pc = "loop"
  /\ b # 0
  /\ a' = gcd_body(a, b)[1]
  /\ b' = gcd_body(a, b)[2]
  /\ UNCHANGED <<pc, gargs, gret, cvars>>

GcdReturn ==
  /\ pc = "loop"
  /\ b = 0
  /\ gret' = gcd_return(a)
  /\ pc' = "returned"
  /\ UNCHANGED <<gargs, a, b, cvars>>

InitMath == Init /\ file = "sample"

NextMath ==
  \/ GcdCall
  \/ GcdLoop
  \/ GcdReturn

SpecMath == InitMath /\ [][NextMath]_vars

\* a running call is not suspended for ever: the loop is sequential code
FairSpecMath == SpecMath /\ WF_vars(GcdLoop) /\ WF_vars(GcdReturn)

(***************************************************************************)
(* Properties.                                                              *)
(***************************************************************************)
Returned(op) == ret.op = op /\ ret.out.raised = "None"

RECURSIVE AreaSum(_)
\* the sum of area() over a sequence of shapes, taken from the last one back
AreaSum(seq) ==
  IF seq = <<>> THEN FZero
  ELSE fadd(AreaSum(SubSeq(seq, 1, Len(seq) - 1)), area(seq[Len(seq)]))

RECURSIVE PerimeterSum(_)
PerimeterSum(seq) ==
  IF seq = <<>> THEN FZero
  ELSE fadd(PerimeterSum(SubSeq(seq, 1, Len(seq) - 1)),
            perimeter(seq[Len(seq)]))

\* x is an integer
IsInt(x) ==
  \/ x.s = 0
  \/ x.e >= 0
  \/ -x.e < MANT_DIG /\ BShl(BShr(x.m, -x.e), -x.e) = x.m

StrictlyPositive(shape) ==
  IF shape.name = "Circle" THEN fgt(shape.radius, FZero)
  ELSE fgt(shape.width, FZero) /\ fgt(shape.height, FZero)

\* C1: constructing a Circle with radius <= 0 fails with ValueError and
\* yields no Circle, under every Circle definition of the repository.
C1_CircleRejectsNonPositive ==
  (ret.op = "Circle" /\ fle(ret.args[1], FZero))
    => ret.out = Raise("ValueError")

\* C2: constructing a Rectangle with width <= 0 or height <= 0 fails with
\* ValueError and yields no Rectangle, under every Rectangle definition.
C2_RectangleRejectsNonPositive ==
  (ret.op = "Rectangle"
     /\ (fle(ret.args[1], FZero) \/ fle(ret.args[2], FZero)))
    => ret.out = Raise("ValueError")

\* C3: the collection is exactly the arguments of the add_shape calls made
\* so far, in call order, duplicates kept; nothing else changes it.
C3_AddShapeAppends == shapes = calls

C3_Witness ==
  /\ ret.op = "add_shape"
  /\ Len(shapes) = 3
  /\ shapes[1] = shapes[3]
  /\ shapes[1] # shapes[2]

\* C4: total_area() returns the sum of area() over the elements of the
\* collection, one term per entry, and 0 when the collection is empty.
C4_TotalArea ==
  ret.op = "total_area" =>
    /\ ret.out.raised = "None"
    /\ ret.out.val = AreaSum(shapes)
    /\ shapes = <<>> => ret.out.val = FZero

C4_Witness ==
  /\ Returned("total_area")
  /\ Len(shapes) = 3
  /\ shapes[1] = shapes[2]
  /\ shapes[3] # shapes[1]
  /\ ret.out.val = fadd(fadd(area(shapes[1]), area(shapes[1])), area(shapes[3]))
  /\ fgt(ret.out.val, area(shapes[3]))

\* C5: get_largest_shape() returns None on an empty collection, raising
\* nothing; otherwise an element of largest area, the earliest added of
\* those that share it.
C5_LargestShape ==
  ret.op = "get_largest_shape" =>
    /\ ret.out.raised = "None"
    /\ shapes = <<>> => ret.out.val = None
    /\ shapes # <<>> =>
         \E i \in 1..Len(shapes) :
           /\ ret.out.val = shapes[i]
           /\ \A j \in 1..Len(shapes) : fle(area(shapes[j]), area(shapes[i]))
           /\ \A j \in 1..(i - 1) : flt(area(shapes[j]), area(shapes[i]))

C5_Witness ==
  /\ Returned("get_largest_shape")
  /\ Len(shapes) = 3
  /\ shapes[2] # shapes[3]
  /\ area(shapes[2]) = area(shapes[3])
  /\ flt(area(shapes[1]), area(shapes[2]))
  /\ ret.out.val = shapes[2]

\* C6: filter_by_color(c) returns exactly the elements whose color is c,
\* duplicates kept, in the order they were added; the empty list when none
\* matches.
C6_FilterByColor ==
  ret.op = "filter_by_color" =>
    /\ ret.out.raised = "None"
    /\ ret.out.val = SelectSeq(shapes, LAMBDA shape : shape.color = ret.args[1])

C6_Witness ==
  /\ Returned("filter_by_color")
  /\ Len(shapes) = 3
  /\ Len(ret.out.val) = 2
  /\ ret.out.val[1] # ret.out.val[2]
  /\ ret.out.val = <<shapes[1], shapes[3]>>

\* C7: get_statistics() on an empty collection returns exactly
\* {count: 0, total_area: 0, total_perimeter: 0}: no other field, no
\* division by zero, no error.
C7_StatisticsEmpty ==
  (ret.op = "get_statistics" /\ shapes = <<>>) =>
    ret.out = Return([count |-> 0, total_area |-> FZero,
                      total_perimeter |-> FZero])

C7_Witness ==
  /\ Returned("get_statistics")
  /\ shapes = <<>>
  /\ DOMAIN ret.out.val = {"count", "total_area", "total_perimeter"}

\* the fields of get_statistics() on a non-empty collection, but for the
\* place of the average
StatisticsFields(st) ==
  /\ DOMAIN st = {"count", "total_area", "total_perimeter", "average_area",
                  "average_perimeter", "max_area", "min_area"}
  /\ st.count = Len(shapes)
  /\ st.total_area = AreaSum(shapes)
  /\ st.total_area = total_area(shapes).val
  /\ st.total_perimeter = PerimeterSum(shapes)
  /\ st.total_perimeter = total_perimeter(shapes).val
  /\ st.average_area = fdiv_int(st.total_area, st.count)
  /\ st.average_perimeter = fdiv_int(st.total_perimeter, st.count)
  /\ \E i \in 1..Len(shapes) : st.max_area = area(shapes[i])
  /\ \A i \in 1..Len(shapes) : fle(area(shapes[i]), st.max_area)
  /\ \E i \in 1..Len(shapes) : st.min_area = area(shapes[i])
  /\ \A i \in 1..Len(shapes) : fle(st.min_area, area(shapes[i]))

AverageBetween(st) ==
  fle(st.min_area, st.average_area) /\ fle(st.average_area, st.max_area)

\* C8 (as stated): get_statistics() on a non-empty collection returns the
\* count, the totals, the averages total / count, the largest and the
\* smallest area, so that min_area <= average_area <= max_area.
C8_Statistics ==
  (ret.op = "get_statistics" /\ shapes # <<>>) =>
    /\ ret.out.raised = "None"
    /\ StatisticsFields(ret.out.val)
    /\ AverageBetween(ret.out.val)

\* C8 (amended): the same fields; min_area <= max_area; and
\* min_area <= average_area <= max_area when every area is an integer (the
\* sums are then exact), not in general: the average is a rounded quotient
\* of a rounded sum.
C8_StatisticsRounded ==
  (ret.op = "get_statistics" /\ shapes # <<>>) =>
    /\ ret.out.raised = "None"
    /\ StatisticsFields(ret.out.val)
    /\ fle(ret.out.val.min_area, ret.out.val.max_area)
    /\ (\A i \in 1..Len(shapes) : IsInt(area(shapes[i])))
         => AverageBetween(ret.out.val)

C8_Witness ==
  /\ Returned("get_statistics")
  /\ shapes = <<sample_Rectangle(FromInt(2), FromInt(2)).val,
                sample_Rectangle(FromInt(4), FromInt(4)).val>>
  /\ ret.out.val.count = 2
  /\ ret.out.val.total_area = FromInt(20)
  /\ ret.out.val.average_area = FromInt(10)
  /\ ret.out.val.max_area = FromInt(16)
  /\ ret.out.val.min_area = FromInt(4)

Aggregations ==
  {"total_area", "total_perimeter", "get_largest_shape", "filter_by_color",
   "get_statistics"}

AggregationsDoNotRaise == ret.op \in Aggregations => ret.out.raised = "None"

CollectionValid == \A i \in 1..Len(shapes) : StrictlyPositive(shapes[i])

\* C9: no aggregation operation raises in any state reached by constructing
\* shapes and adding them, the shapes of the collection all being valid:
\* of strictly positive dimensions.
C9_AggregationsSafe == AggregationsDoNotRaise /\ CollectionValid

Divides(d, n) == \E k \in -abs(n)..abs(n) : n = d * k

\* g is the non-negative greatest common divisor of x and y
IsGcd(g, x, y) ==
  /\ g >= 0
  /\ Divides(g, x)
  /\ Divides(g, y)
  /\ \A d \in -MaxInt..MaxInt : (Divides(d, x) /\ Divides(d, y)) => Divides(d, g)

\* C10: MathUtils.gcd(a, b) terminates for all ints a, b of either sign and
\* returns the non-negative greatest common divisor of |a| and |b|;
\* gcd(a, 0) = |a| and gcd(0, 0) = 0.
C10_Gcd ==
  /\ [](pc = "returned" =>
          /\ IsGcd(gret, gargs[1], gargs[2])
          /\ IsGcd(gret, abs(gargs[1]), abs(gargs[2]))
          /\ gargs[2] = 0 => gret = abs(gargs[1]))
  /\ (pc = "loop") ~> (pc = "returned")

C10_Witness ==
  /\ pc = "returned"
  /\ gargs = <<-4, 6>>
  /\ gret = 2

====
